---- MODULE Spec2Model ----
(***************************************************************************)
(* Model of packages/modal-sandbox: deploy.py (application name, image,    *)
(* the two GET endpoints) and debug_build.py (the one-shot debug build).   *)
(* Python strings are TLA+ strings, f-strings are \o concatenations, and   *)
(* os.environ is a function whose domain holds the variables that are set. *)
(***************************************************************************)
EXTENDS Integers, Sequences, FiniteSets, TLC

\* ---------------------------------------------------------------- bounds
\* Longest value of MODAL_APP_SUFFIX the environment takes.
MaxLen == 2

\* Characters the values of MODAL_APP_SUFFIX are made of (a letter, a blank).
Alphabet == {"d", " "}

\* Identifiers the platform may assign to a built image.
ImageIds == {"im-1", "im-2"}

\* Errors the platform may raise from a build.
PlatformErrors == {"RemoteError", "ExecutionError"}

\* ------------------------------------------------------------ Python values
\* Python's None.
None == "<None>"

\* A module global that no statement has assigned yet.
Unbound == "<unbound>"

RECURSIVE Strings(_)
Strings(n) ==
    IF n = 0 THEN {""}
    ELSE Strings(n - 1) \cup {s \o c : s \in Strings(n - 1), c \in Alphabet}

\* os.environ without MODAL_APP_SUFFIX.
EmptyEnviron == [k \in {} |-> ""]

\* os.environ with MODAL_APP_SUFFIX=s.
WithSuffix(s) == [MODAL_APP_SUFFIX |-> s]

\* The values MODAL_APP_SUFFIX takes: every string up to MaxLen, and "dev1".
Suffixes == Strings(MaxLen) \cup {"dev1"}

\* The environments a run can see: the variable unset, or set (possibly to "").
Environs == {EmptyEnviron} \cup {WithSuffix(s) : s \in Suffixes}

\* Variant of EnvironGet: os.environ.get("MODAL_APP_SUFFIX", "default").
EnvironGetWrongDefault(e, key, default) ==
    IF key \in DOMAIN e THEN e[key] ELSE "default"

\* os.environ.get(key, default)
EnvironGet(e, key, default) == IF key \in DOMAIN e THEN e[key] ELSE default

\* Variant of Truthy: `if app_suffix is not None`.
TruthyNotNone(s) == s # None

\* Python truthiness of a str: the empty string is false.
Truthy(s) == s # ""

\* str.strip() on the strings of the model: the shortest t with s = l + t + r
\* for runs of blanks l and r.
RECURSIVE Blanks(_)
Blanks(n) == IF n = 0 THEN {""} ELSE Blanks(n - 1) \cup {b \o " " : b \in Blanks(n - 1)}

Cores(s) ==
    {t \in Suffixes : \E l \in Blanks(MaxLen), r \in Blanks(MaxLen) : s = l \o t \o r}

Strip(s) == CHOOSE t \in Cores(s) : \A u \in Cores(s) : Len(t) <= Len(u)

\* Variant of AppName: the suffix is stripped before it is appended.
AppNameStripped(suffix) ==
    IF suffix # "" THEN "proliferate-sandbox-" \o Strip(suffix) ELSE "proliferate-sandbox"

\* Variant of AppName: a literal where the f-string should interpolate.
AppNameLiteral(suffix) ==
    IF suffix # "" THEN "proliferate-sandbox-dev" ELSE "proliferate-sandbox"

\* deploy.py line 17, the conditional expression around the f-string.
AppName(suffix) ==
    IF Truthy(suffix) THEN "proliferate-sandbox-" \o suffix ELSE "proliferate-sandbox"

\* Variant of App: modal.App("proliferate-sandbox"), the suffix forgotten.
AppHardcoded(name) == [name |-> "proliferate-sandbox"]

\* modal.App(name): the application object, carrying the name it registers under.
App(name) == [name |-> name]

\* modal.Image.from_dockerfile(...): a lazy image, no identifier until it is built.
FromDockerfile == [object_id |-> None]

Endpoints == {"get_image_id", "health"}

\* No response yet / the handler raised / the handler returned a body.
NoResponse == [kind |-> "none"]
Raised == [kind |-> "raised"]
Returned(body) == [kind |-> "returned", body |-> body]

\* No earlier deployment is known to the platform.
NoDeployment == [kind |-> "none"]

VARIABLES
    environ,       \* os.environ of the process that loads deploy.py
    pc,            \* deploy.py: the next module-level statement ("not_run": the
                   \* process was started on debug_build.py instead)
    loadEnviron,   \* history: os.environ as line 16 read it
    app_suffix,    \* deploy.py global
    app_name,      \* deploy.py global
    app,           \* deploy.py global
    BASE_IMAGE,    \* deploy.py global
    registered,    \* platform: name this run's application is deployed under
    request,       \* endpoint call being handled, or None
    response,      \* last response of each endpoint
    earlier,       \* platform: the deployment made by the previous run
    dpc,           \* debug_build.py: the next statement ("not_run": the process
                   \* was started on deploy.py instead)
    run_name,      \* debug_build.py: __name__
    DEBUG_IMAGE,   \* debug_build.py global
    exc,           \* debug_build.py: the exception in flight, or None
    build_attempts,\* platform: builds debug_build.py has asked for
    stdout         \* debug_build.py: lines printed

deployVars == <<environ, pc, loadEnviron, app_suffix, app_name, app, BASE_IMAGE,
                registered, request, response, earlier>>
debugVars == <<dpc, run_name, DEBUG_IMAGE, exc, build_attempts, stdout>>
vars == <<deployVars, debugVars>>

\* ------------------------------------------------------------------ deploy.py
DeployInit ==
    /\ environ \in Environs
    /\ pc \in {"line16", "not_run"}
    /\ loadEnviron = EmptyEnviron
    /\ app_suffix = Unbound
    /\ app_name = Unbound
    /\ app = App(Unbound)
    /\ BASE_IMAGE = [object_id |-> Unbound]
    /\ registered = None
    /\ request = None
    /\ response = [e \in Endpoints |-> NoResponse]
    /\ earlier = NoDeployment

\* The process's code (or the shell, before the load) sets, changes or unsets
\* MODAL_APP_SUFFIX.  The module body itself never does, so no change falls
\* between two of its statements.
SetEnviron ==
    /\ pc \in {"line16", "loaded"}
    /\ request = None
    /\ \E e \in Environs : e # environ /\ environ' = e
    /\ UNCHANGED <<pc, loadEnviron, app_suffix, app_name, app, BASE_IMAGE,
                   registered, request, response, earlier>>
    /\ UNCHANGED debugVars

\* app_suffix = os.environ.get("MODAL_APP_SUFFIX", "")
Line16 ==
    /\ pc = "line16"
    /\ app_suffix' = EnvironGet(environ, "MODAL_APP_SUFFIX", "")
    /\ loadEnviron' = environ
    /\ pc' = "line17"
    /\ UNCHANGED <<environ, app_name, app, BASE_IMAGE, registered, request,
                   response, earlier>>
    /\ UNCHANGED debugVars

\* app_name = f"proliferate-sandbox-{app_suffix}" if app_suffix else "proliferate-sandbox"
Line17 ==
    /\ pc = "line17"
    /\ app_name' = AppName(app_suffix)
    /\ pc' = "line19"
    /\ UNCHANGED <<environ, loadEnviron, app_suffix, app, BASE_IMAGE, registered,
                   request, response, earlier>>
    /\ UNCHANGED debugVars

\* app = modal.App(app_name)
Line19 ==
    /\ pc = "line19"
    /\ app' = App(app_name)
    /\ pc' = "line23"
    /\ UNCHANGED <<environ, loadEnviron, app_suffix, app_name, BASE_IMAGE,
                   registered, request, response, earlier>>
    /\ UNCHANGED debugVars

\* BASE_IMAGE = modal.Image.from_dockerfile(dockerfile_path, force_build=True)
\* and the two decorated definitions, which bind the handlers.
Line23 ==
    /\ pc = "line23"
    /\ BASE_IMAGE' = FromDockerfile
    /\ pc' = "loaded"
    /\ UNCHANGED <<environ, loadEnviron, app_suffix, app_name, app, registered,
                   request, response, earlier>>
    /\ UNCHANGED debugVars

\* The platform builds BASE_IMAGE (modal deploy, force_build=True) and assigns
\* it an identifier.
BuildSucceeds ==
    /\ pc = "loaded"
    /\ request = None
    /\ BASE_IMAGE.object_id = None
    /\ \E id \in ImageIds : BASE_IMAGE' = [object_id |-> id]
    /\ UNCHANGED <<environ, pc, loadEnviron, app_suffix, app_name, app, registered,
                   request, response, earlier>>
    /\ UNCHANGED debugVars

\* The build fails: the platform's error ends the run, nothing is deployed.
BuildFails ==
    /\ pc = "loaded"
    /\ request = None
    /\ BASE_IMAGE.object_id = None
    /\ pc' = "failed"
    /\ UNCHANGED <<environ, loadEnviron, app_suffix, app_name, app, BASE_IMAGE,
                   registered, request, response, earlier>>
    /\ UNCHANGED debugVars

\* The platform registers the application under the name of the App object;
\* its functions need the built image.
Deploy ==
    /\ pc = "loaded"
    /\ BASE_IMAGE.object_id # None
    /\ registered = None
    /\ registered' = app.name
    /\ UNCHANGED <<environ, pc, loadEnviron, app_suffix, app_name, app, BASE_IMAGE,
                   request, response, earlier>>
    /\ UNCHANGED debugVars

\* Image.object_id: the identifier of a built image; undefined before the build.
ObjectId(image) ==
    IF image.object_id = None THEN Raised ELSE Returned(image.object_id)

\* Variant of get_image_id: an identifier copied into the source instead of the
\* image's own.
get_image_id_copied(image) == Returned([image_id |-> "im-1"])

\* def get_image_id(): return {"image_id": BASE_IMAGE.object_id}
get_image_id(image) ==
    LET id == ObjectId(image)
    IN  IF id = Raised THEN Raised ELSE Returned([image_id |-> id.body])

\* Variant of health: the default name written out instead of app_name.
healthStatic(name) == Returned([status |-> "ok", app |-> "proliferate-sandbox"])

\* Variant of health: the name is derived from the environment at each call.
healthRecomputed(name) ==
    Returned([status |-> "ok",
              app |-> IF "MODAL_APP_SUFFIX" \in DOMAIN environ
                         /\ environ["MODAL_APP_SUFFIX"] # ""
                      THEN "proliferate-sandbox-" \o environ["MODAL_APP_SUFFIX"]
                      ELSE "proliferate-sandbox"])

\* def health(): return {"status": "ok", "app": app_name}
health(name) == Returned([status |-> "ok", app |-> name])

\* A GET request reaches one of the two endpoints (or the function is called in
\* the loading process, which can happen before any build).
Call ==
    /\ pc = "loaded"
    /\ request = None
    /\ \E e \in Endpoints : request' = e
    /\ UNCHANGED <<environ, pc, loadEnviron, app_suffix, app_name, app, BASE_IMAGE,
                   registered, response, earlier>>
    /\ UNCHANGED debugVars

\* Variant of HandleGetImageId: the handler rebuilds the image before it answers.
HandleGetImageIdRebuilding ==
    /\ request = "get_image_id"
    /\ \E id \in ImageIds :
          /\ id # BASE_IMAGE.object_id
          /\ BASE_IMAGE' = [object_id |-> id]
          /\ response' = [response EXCEPT !["get_image_id"] = Returned([image_id |-> id])]
    /\ request' = None
    /\ UNCHANGED <<environ, pc, loadEnviron, app_suffix, app_name, app, registered,
                   earlier>>
    /\ UNCHANGED debugVars

\* The handler of GET get_image_id runs.
HandleGetImageId ==
    /\ request = "get_image_id"
    /\ response' = [response EXCEPT !["get_image_id"] = get_image_id(BASE_IMAGE)]
    /\ request' = None
    /\ UNCHANGED <<environ, pc, loadEnviron, app_suffix, app_name, app, BASE_IMAGE,
                   registered, earlier>>
    /\ UNCHANGED debugVars

\* The handler of GET health runs.
HandleHealth ==
    /\ request = "health"
    /\ response' = [response EXCEPT !["health"] = health(app_name)]
    /\ request' = None
    /\ UNCHANGED <<environ, pc, loadEnviron, app_suffix, app_name, app, BASE_IMAGE,
                   registered, earlier>>
    /\ UNCHANGED debugVars

\* The run ends and deploy.py is loaded afresh by a later run (another
\* developer's, or the same one's): every global is gone, the platform keeps
\* what the run deployed.
NewRun ==
    /\ pc \in {"loaded", "failed"}
    /\ request = None
    /\ earlier' = IF registered # None
                  THEN [kind |-> "deployed", environ |-> loadEnviron, name |-> registered]
                  ELSE earlier
    /\ pc' = "line16"
    /\ loadEnviron' = EmptyEnviron
    /\ app_suffix' = Unbound
    /\ app_name' = Unbound
    /\ app' = App(Unbound)
    /\ BASE_IMAGE' = [object_id |-> Unbound]
    /\ registered' = None
    /\ response' = [e \in Endpoints |-> NoResponse]
    /\ UNCHANGED <<environ, request>>
    /\ UNCHANGED debugVars

\* -------------------------------------------------------------- debug_build.py
\* str() of a value inside an f-string.
Str(x) == IF x = None THEN "None" ELSE x

\* f"Built image id: {DEBUG_IMAGE.object_id}"
BuiltLine(image) == "Built image id: " \o Str(image.object_id)

\* Variant of AfterWith: the exception is swallowed (try/except around the build).
AfterWithSwallowed(e) == "line40"

\* Where control goes when the two with-blocks have been left: neither
\* enable_output() nor app.run() swallows an exception, and the script has no
\* try/except, so an exception in flight ends the script.
AfterWith(e) == IF e = None THEN "line40" ELSE "raised"

DebugInit ==
    /\ dpc = IF pc = "not_run" THEN "line35" ELSE "not_run"
    /\ run_name \in IF pc = "not_run" THEN {"__main__", "debug_build"} ELSE {None}
    /\ DEBUG_IMAGE = [object_id |-> None]
    /\ exc = None
    /\ build_attempts = 0
    /\ stdout = <<>>

\* if __name__ == "__main__":
Line35 ==
    /\ dpc = "line35"
    /\ dpc' = IF run_name = "__main__" THEN "line36" ELSE "done"
    /\ UNCHANGED <<run_name, DEBUG_IMAGE, exc, build_attempts, stdout>>
    /\ UNCHANGED deployVars

\* print("Building image with output enabled...")
Line36 ==
    /\ dpc = "line36"
    /\ stdout' = Append(stdout, "Building image with output enabled...")
    /\ dpc' = "line37"
    /\ UNCHANGED <<run_name, DEBUG_IMAGE, exc, build_attempts>>
    /\ UNCHANGED deployVars

\* with modal.enable_output():
Line37 ==
    /\ dpc = "line37"
    /\ dpc' = "line38"
    /\ UNCHANGED <<run_name, DEBUG_IMAGE, exc, build_attempts, stdout>>
    /\ UNCHANGED deployVars

\* with app.run():
Line38 ==
    /\ dpc = "line38"
    /\ dpc' = "line39"
    /\ UNCHANGED <<run_name, DEBUG_IMAGE, exc, build_attempts, stdout>>
    /\ UNCHANGED deployVars

\* DEBUG_IMAGE.build(app): the platform builds the image and assigns its id.
Line39Returns ==
    /\ dpc = "line39"
    /\ build_attempts' = build_attempts + 1
    /\ \E id \in ImageIds : DEBUG_IMAGE' = [object_id |-> id]
    /\ dpc' = "exit38"
    /\ UNCHANGED <<run_name, exc, stdout>>
    /\ UNCHANGED deployVars

\* DEBUG_IMAGE.build(app): the build fails and the platform's error is raised.
Line39Raises ==
    /\ dpc = "line39"
    /\ build_attempts' = build_attempts + 1
    /\ \E e \in PlatformErrors : exc' = e
    /\ dpc' = "exit38"
    /\ UNCHANGED <<run_name, DEBUG_IMAGE, stdout>>
    /\ UNCHANGED deployVars

\* Leaving `with app.run():`, normally or with the exception in flight.
Exit38 ==
    /\ dpc = "exit38"
    /\ dpc' = "exit37"
    /\ UNCHANGED <<run_name, DEBUG_IMAGE, exc, build_attempts, stdout>>
    /\ UNCHANGED deployVars

\* Leaving `with modal.enable_output():`.
Exit37 ==
    /\ dpc = "exit37"
    /\ dpc' = AfterWith(exc)
    /\ UNCHANGED <<run_name, DEBUG_IMAGE, exc, build_attempts, stdout>>
    /\ UNCHANGED deployVars

\* print(f"Built image id: {DEBUG_IMAGE.object_id}")
Line40 ==
    /\ dpc = "line40"
    /\ stdout' = Append(stdout, BuiltLine(DEBUG_IMAGE))
    /\ dpc' = "done"
    /\ UNCHANGED <<run_name, DEBUG_IMAGE, exc, build_attempts>>
    /\ UNCHANGED deployVars

Init == DeployInit /\ DebugInit

Next ==
    \/ SetEnviron
    \/ Line16
    \/ Line17
    \/ Line19
    \/ Line23
    \/ BuildSucceeds
    \/ BuildFails
    \/ Deploy
    \/ Call
    \/ HandleGetImageId
    \/ HandleHealth
    \/ NewRun
    \/ Line35
    \/ Line36
    \/ Line37
    \/ Line38
    \/ Line39Returns
    \/ Line39Raises
    \/ Exit38
    \/ Exit37
    \/ Line40

Spec == Init /\ [][Next]_vars

\* ------------------------------------------------------------------- properties
\* deploy.py has executed line 17: app_name is bound.
NameBound == pc \in {"line19", "line23", "loaded", "failed"}

\* MODAL_APP_SUFFIX was set, to a non-empty value, when line 16 read it.
NonEmptyAt(e) == "MODAL_APP_SUFFIX" \in DOMAIN e /\ e["MODAL_APP_SUFFIX"] # ""

UnsetAt(e) == "MODAL_APP_SUFFIX" \notin DOMAIN e

\* The handler of endpoint e runs in this step.
Handled(e) == request = e /\ request' = None

HealthReturned == response["health"].kind = "returned"

ImageIdReturned == response["get_image_id"].kind = "returned"

\* C1: with MODAL_APP_SUFFIX unset when deploy.py is loaded, the application
\* name is exactly "proliferate-sandbox".
C1_UnsetGivesDefault ==
    (NameBound /\ UnsetAt(loadEnviron)) => app_name = "proliferate-sandbox"

C1_Witness == pc = "loaded" /\ UnsetAt(loadEnviron) /\ app_name # Unbound

\* C2: with MODAL_APP_SUFFIX set to a non-empty s when deploy.py is loaded, the
\* application name is "proliferate-sandbox", a hyphen and s itself, blanks
\* included.
C2_SuffixAppended ==
    (NameBound /\ NonEmptyAt(loadEnviron)) =>
        /\ app_name = ("proliferate-sandbox" \o "-") \o loadEnviron["MODAL_APP_SUFFIX"]
        /\ Len(app_name) = 20 + Len(loadEnviron["MODAL_APP_SUFFIX"])

C2_Witness ==
    /\ pc = "loaded"
    /\ loadEnviron = WithSuffix("d ")
    /\ app_name = "proliferate-sandbox-d "

\* C3: every health response has exactly the fields status and app, status is
\* "ok" and app is the application name computed at load time.
C3_HealthBody ==
    response["health"] # NoResponse =>
        /\ HealthReturned
        /\ DOMAIN response["health"].body = {"status", "app"}
        /\ response["health"].body.status = "ok"
        /\ response["health"].body.app = app_name

C3_Witness ==
    /\ HealthReturned
    /\ NonEmptyAt(loadEnviron)
    /\ response["health"].body.app # "proliferate-sandbox"

\* C4: get_image_id returns an identifier only when the build of the image has
\* succeeded, and then a non-empty one; a call made while the image has no
\* identifier raises instead of returning.
C4_IdOnlyAfterBuild ==
    /\ [](ImageIdReturned =>
            /\ BASE_IMAGE.object_id \in ImageIds
            /\ response["get_image_id"].body = [image_id |-> BASE_IMAGE.object_id]
            /\ response["get_image_id"].body.image_id # "")
    /\ [][(Handled("get_image_id") /\ BASE_IMAGE.object_id \notin ImageIds)
            => response'["get_image_id"] = Raised]_vars

C4_Witness ==
    /\ response["get_image_id"] = Raised
    /\ BASE_IMAGE.object_id \in ImageIds
    /\ request = "get_image_id"

\* C5: once computed, the application name never changes within a loaded
\* instance, whatever happens to MODAL_APP_SUFFIX and whichever endpoints are
\* called, and every health response of the instance reports the same name.
C5_NameComputedOnce ==
    [][/\ (NameBound /\ pc' # "line16") => app_name' = app_name
       /\ (HealthReturned /\ pc' # "line16") => response'["health"] = response["health"]]_vars

C5_Witness ==
    /\ HealthReturned
    /\ request = "health"
    /\ NonEmptyAt(loadEnviron)
    /\ UnsetAt(environ)

\* C6: a call of either endpoint leaves the application name, the application,
\* the image and its identifier as they were, and a repeated call answers as the
\* call before it did.
C6_EndpointsReadOnly ==
    [][\A e \in Endpoints :
          Handled(e) =>
             /\ UNCHANGED <<environ, app_suffix, app_name, app, BASE_IMAGE, registered>>
             /\ response[e].kind = "returned" => response'[e] = response[e]
             /\ \A f \in Endpoints \ {e} : response'[f] = response[f]]_vars

C6_Witness ==
    /\ HealthReturned
    /\ ImageIdReturned
    /\ request = "get_image_id"

BuiltLines == {"Built image id: " \o x : x \in ImageIds \cup {"None"}}

Printed(line) == \E i \in DOMAIN stdout : stdout[i] = line

\* C7: the debug script asks for one build; a failed build is not retried, its
\* error reaches the top of the script as raised, and no "Built image id" line
\* is printed; the line is printed only once the build has succeeded.
C7_OneBuildNoRetry ==
    /\ [](/\ build_attempts <= 1
          /\ (run_name = "__main__" /\ dpc \in {"done", "raised"}) => build_attempts = 1
          /\ exc # None =>
                /\ dpc \in {"exit38", "exit37", "raised"}
                /\ \A l \in BuiltLines : ~Printed(l)
          /\ (\E l \in BuiltLines : Printed(l)) =>
                /\ DEBUG_IMAGE.object_id \in ImageIds
                /\ Printed("Built image id: " \o DEBUG_IMAGE.object_id)
                /\ exc = None
          /\ (dpc = "done" /\ run_name = "__main__") => (\E l \in BuiltLines : Printed(l)))
    /\ [][exc # None => exc' = exc]_vars

C7_Witness ==
    /\ dpc = "raised"
    /\ exc = "RemoteError"
    /\ build_attempts = 1
    /\ stdout = <<"Building image with output enabled...">>

\* C8: MODAL_APP_SUFFIX set to the empty string gives the default name, never
\* the default followed by a hyphen.
C8_EmptyIsUnset ==
    (NameBound /\ loadEnviron = WithSuffix("")) =>
        /\ app_name = "proliferate-sandbox"
        /\ app_name # "proliferate-sandbox-"
        /\ (earlier.kind = "deployed" /\ UnsetAt(earlier.environ)) => app_name = earlier.name

C8_Witness ==
    /\ pc = "loaded"
    /\ loadEnviron = WithSuffix("")
    /\ earlier.kind = "deployed"
    /\ UnsetAt(earlier.environ)

\* C9: a run loaded with a non-empty suffix gets a name different from the name
\* deployed by an earlier run loaded with another non-empty suffix, or with the
\* variable unset (and the other way round).
C9_NoCollision ==
    (NameBound /\ earlier.kind = "deployed") =>
        /\ (/\ NonEmptyAt(loadEnviron)
            /\ NonEmptyAt(earlier.environ)
            /\ loadEnviron # earlier.environ) => app_name # earlier.name
        /\ (NonEmptyAt(loadEnviron) /\ UnsetAt(earlier.environ)) => app_name # earlier.name
        /\ (UnsetAt(loadEnviron) /\ NonEmptyAt(earlier.environ)) => app_name # earlier.name

C9_Witness ==
    /\ pc = "loaded"
    /\ registered # None
    /\ earlier.kind = "deployed"
    /\ loadEnviron = WithSuffix("d ")
    /\ earlier.environ = WithSuffix("d")

\* C10: the name the application is registered under and the app field of the
\* health responses are the same value.
C10_RegisteredIsReported ==
    /\ pc \in {"line23", "loaded", "failed"} => app.name = app_name
    /\ registered # None => registered = app.name
    /\ HealthReturned => response["health"].body.app = app.name
    /\ (registered # None /\ HealthReturned) => response["health"].body.app = registered

C10_Witness ==
    /\ registered # None
    /\ HealthReturned
    /\ NonEmptyAt(loadEnviron)
    /\ registered # "proliferate-sandbox"

====
